---- MODULE Spec2Model ----
(***************************************************************************)
(* Model of the regex -> text highlight mapping engine of regex_visualiser *)
(* (src/app/parsing.rs, src/app/text.rs, src/app/state.rs,                 *)
(* src/app/ui/editor.rs).                                                  *)
(*                                                                         *)
(* regex_text, input_text, replace_text and result_text are the fields of  *)
(* WidgetState; logic is AppState::logic; drawn is what the last frame put *)
(* on the screen; panic is where the program panicked, or "none"; pc and   *)
(* ret are the position and the result of the functions run on their own.  *)
(*                                                                         *)
(* Strings are sequences of bytes.  A byte is one of the strings below;    *)
(* "C3" "A9" is the two-byte UTF-8 encoding of one character, "nl" is the  *)
(* newline character.  Byte offsets are 0-based and ranges are half-open   *)
(* pairs <<start, end>>, as std::ops::Range<usize> is.                     *)
(***************************************************************************)
EXTENDS Integers, Sequences, FiniteSets, TLC

VARIABLES regex_text, input_text, replace_text, result_text, logic, drawn, panic, pc, ret

vars == <<regex_text, input_text, replace_text, result_text, logic, drawn, panic, pc, ret>>

----------------------------------------------------------------------------
(* Bounds *)

\* largest number of AST nodes of a pattern of the regex-decoration specification
MaxNodes == 7
\* largest number of AST nodes of a pattern of the match-decoration specification
MaxMatchNodes == 5
\* largest number of bytes of an input text
MaxTextLen == 2
\* largest number of bytes of a text handed to the offset mapper
MaxConvLen == 3
\* largest number of AST nodes of a pattern typed into the editor
MaxEditorNodes == 3
\* largest number of bytes of the text of a TextLayoutJob
MaxJobLen == 3
\* largest length of a LoopVec
MaxLoopLen == 4
\* number of bits of usize the model keeps (the targets have 32 or 64)
UsizeBits == 16
\* largest number of bytes of an input text typed into the editor
MaxEditorTextLen == 1
\* largest number of AST nodes on either side of the defect of a rejected
\* pattern typed into the editor
MaxEditorBrokenNodes == 0
\* largest number of AST nodes on either side of the defect of a rejected
\* pattern of the error-decoration specification
MaxBrokenNodes == 2

----------------------------------------------------------------------------
(* Generic helpers *)

None == <<>>

Range(s, e) == <<s, e>>

Min(a, b) == IF a <= b THEN a ELSE b

Max(a, b) == IF a >= b THEN a ELSE b

\* byte b lies in the half-open range
InRange(b, range) == range[1] <= b /\ b < range[2]

\* s[a..b) with 0-based half-open byte offsets
Slice(s, a, b) == SubSeq(s, a + 1, b)

RECURSIVE Flatten(_)
Flatten(ss) == IF ss = <<>> THEN <<>> ELSE Head(ss) \o Flatten(Tail(ss))

\* all sequences over S of length 0..n
SeqsUpTo(S, n) == UNION {[1..k -> S] : k \in 0..n}

----------------------------------------------------------------------------
(* UTF-8 strings *)

IsContinuation(b) == b = "A9"

\* str::is_char_boundary
IsCharBoundary(text, i) ==
    \/ i = 0
    \/ i = Len(text)
    \/ (i > 0 /\ i < Len(text) /\ ~IsContinuation(text[i + 1]))

\* a sequence of bytes that is a well-formed string
IsUtf8(bytes) ==
    \A i \in 1..Len(bytes) :
        /\ bytes[i] = "C3" => (i < Len(bytes) /\ bytes[i + 1] = "A9")
        /\ bytes[i] = "A9" => (i > 1 /\ bytes[i - 1] = "C3")

\* str::chars().count()
CharCount(s) == Cardinality({i \in 1..Len(s) : ~IsContinuation(s[i])})

\* str::matches('\n').count()
NewlineCount(s) == Cardinality({i \in 1..Len(s) : s[i] = "nl"})

----------------------------------------------------------------------------
(* The regex library: regex_syntax::ast::parse::Parser and regex::Regex     *)
(*                                                                         *)
(* A pattern is drawn together with its syntax tree.  Syntax(n, ...) is    *)
(* the set of trees with n nodes that the parser produces for some         *)
(* pattern: a concatenation never holds a concatenation or an alternation  *)
(* directly, an alternation never holds an alternation directly, and a     *)
(* repetition operator binds to a literal or a group.                      *)

Literal(c) == [kind |-> "Literal", c |-> c]

\* the bytes a literal is written with in a pattern: the newline is written as
\* the escape \n, the character U+00E9 as its two bytes
LiteralPattern(c) ==
    CASE c = "nl" -> <<"\\", "n">>
      [] c = "e9" -> <<"C3", "A9">>
      [] OTHER -> <<c>>

\* the bytes of a text a literal matches
LiteralText(c) == IF c = "e9" THEN <<"C3", "A9">> ELSE <<c>>

Group(capturing, t) == [kind |-> "Group", capturing |-> capturing, ast |-> t]

Repetition(op, t) == [kind |-> "Repetition", op |-> op, ast |-> t]

Concat(ts) == [kind |-> "Concat", asts |-> ts]

Alternation(ts) == [kind |-> "Alternation", asts |-> ts]

Empty == [kind |-> "Empty"]

\* the trees with Len(table) + 1 nodes, table[k] being the trees with k nodes
SyntaxLevel(table, lits, ops) ==
    LET n == Len(table) + 1
    IN  IF n = 1 THEN {Literal(c) : c \in lits}
        ELSE {Group(cap, t) : cap \in BOOLEAN, t \in table[n - 1]}
             \cup {Repetition(op, t) :
                     op \in ops, t \in {x \in table[n - 1] : x.kind \in {"Literal", "Group"}}}
             \cup UNION {{Concat(<<x, y>>) :
                            x \in {t \in table[k] : t.kind \notin {"Concat", "Alternation"}},
                            y \in {t \in table[n - 1 - k] :
                                     t.kind \notin {"Concat", "Alternation"}}}
                         : k \in 1..(n - 2)}
             \cup UNION {{Alternation(<<x, y>>) :
                            x \in {t \in table[k] : t.kind # "Alternation"},
                            y \in {t \in table[n - 1 - k] : t.kind # "Alternation"}}
                         : k \in 1..(n - 2)}

RECURSIVE Syntax(_, _, _, _)
Syntax(table, n, lits, ops) ==
    IF Len(table) >= n THEN table
    ELSE Syntax(Append(table, SyntaxLevel(table, lits, ops)), n, lits, ops)

\* the trees with at most n nodes, and the tree of the empty pattern
SyntaxUpTo(n, lits, ops) ==
    {Empty} \cup UNION {Syntax(<<>>, n, lits, ops)[k] : k \in 1..n}

\* A pattern the library rejects: the pattern of tree `before`, then a defect,
\* with the pattern of tree `after` inside or after it.
Broken(defect, before, after) ==
    [kind |-> "Broken", defect |-> defect, before |-> before, after |-> after]

\* the defects, named after regex_syntax::ast::ErrorKind and
\* regex_syntax::hir::ErrorKind
Defects ==
    {"GroupUnclosed", "GroupUnopened", "FlagDuplicate", "FlagRepeatedNegation",
     "GroupNameDuplicate", "UnicodePropertyNotFound"}

\* how a defect is written between the patterns `before` and `after`
BrokenPattern(defect, before, after) ==
    CASE defect = "GroupUnclosed" -> before \o <<"(">> \o after
      [] defect = "GroupUnopened" -> before \o <<")">> \o after
      [] defect = "FlagDuplicate" -> before \o <<"(", "?", "i", "i", ")">> \o after
      [] defect = "FlagRepeatedNegation" ->
            before \o <<"(", "?", "-", "-", "i", ")">> \o after
      [] defect = "GroupNameDuplicate" ->
            before \o <<"(", "?", "P", "<", "n", ">">> \o after
                   \o <<")", "(", "?", "P", "<", "n", ">", ")">>
      [] defect = "UnicodePropertyNotFound" -> before \o <<"\\", "p", "X">> \o after

\* the pattern string a tree is parsed from
RECURSIVE PatternOf(_)
PatternOf(t) ==
    CASE t.kind = "Empty" -> <<>>
      [] t.kind = "Broken" ->
            BrokenPattern(t.defect, PatternOf(t.before), PatternOf(t.after))
      [] t.kind = "Literal" -> LiteralPattern(t.c)
      [] t.kind = "Group" ->
            (IF t.capturing THEN <<"(">> ELSE <<"(", "?", ":">>) \o PatternOf(t.ast) \o <<")">>
      [] t.kind = "Repetition" -> PatternOf(t.ast) \o <<t.op>>
      [] t.kind = "Concat" -> PatternOf(t.asts[1]) \o PatternOf(t.asts[2])
      [] t.kind = "Alternation" -> PatternOf(t.asts[1]) \o <<"|">> \o PatternOf(t.asts[2])

\* Parser::parse: the tree with the span of every node and the capture index of
\* every capturing group, numbered from `next` in the order of the opening
\* parentheses.  Returns the tree and the next free capture index.
RECURSIVE ParseAt(_, _, _)
ParseAt(t, off, next) ==
    CASE t.kind = "Empty" ->
            [ast |-> [kind |-> "Empty", span |-> Range(off, off)], next |-> next]
      [] t.kind = "Literal" ->
            [ast |-> [kind |-> "Literal", c |-> t.c, span |-> Range(off, off + Len(LiteralPattern(t.c)))],
             next |-> next]
      [] t.kind = "Group" ->
            LET open == IF t.capturing THEN 1 ELSE 3
                in == ParseAt(t.ast, off + open, IF t.capturing THEN next + 1 ELSE next)
            IN  [ast |-> [kind |-> "Group",
                          capture_index |-> IF t.capturing THEN next ELSE 0,
                          ast |-> in.ast,
                          span |-> Range(off, in.ast.span[2] + 1)],
                 next |-> in.next]
      [] t.kind = "Repetition" ->
            LET in == ParseAt(t.ast, off, next)
            IN  [ast |-> [kind |-> "Repetition", op |-> t.op, ast |-> in.ast,
                          span |-> Range(off, in.ast.span[2] + 1)],
                 next |-> in.next]
      [] t.kind \in {"Concat", "Alternation"} ->
            LET sep == IF t.kind = "Concat" THEN 0 ELSE 1
                l == ParseAt(t.asts[1], off, next)
                r == ParseAt(t.asts[2], l.ast.span[2] + sep, l.next)
            IN  [ast |-> [kind |-> t.kind, asts |-> <<l.ast, r.ast>>,
                          span |-> Range(off, r.ast.span[2])],
                 next |-> r.next]

\* Regex::captures_len() - 1: the number of capturing groups of the pattern
RECURSIVE GroupCount(_)
GroupCount(ast) ==
    CASE ast.kind \in {"Empty", "Literal"} -> 0
      [] ast.kind = "Group" -> (IF ast.capture_index > 0 THEN 1 ELSE 0) + GroupCount(ast.ast)
      [] ast.kind = "Repetition" -> GroupCount(ast.ast)
      [] ast.kind \in {"Concat", "Alternation"} ->
            GroupCount(ast.asts[1]) + GroupCount(ast.asts[2])

\* Ok((Ast, Regex)) of compile_regex.  The Regex keeps the pattern
\* (Regex::as_str) and the program it matches with.
Compiled(pattern, parsed) ==
    [ok |-> TRUE, ast |-> parsed,
     regex |-> [as_str |-> pattern, prog |-> parsed, groups |-> GroupCount(parsed)]]

\* RegexError::Parse(e) with e.span() and e.auxiliary_span()
ParseError(span, aux) == [kind |-> "Parse", span |-> span, aux |-> aux]

\* RegexError::Compile(e)
CompileError == [kind |-> "Compile"]

\* The error of a broken pattern whose parts `before` and `after` are l1 and l2
\* bytes long.  An unclosed group is reported at its opening parenthesis and
\* an unopened one at the closing parenthesis; a duplicate flag, a repeated
\* negation and a duplicate group name are reported at the second occurrence,
\* with the first one as the auxiliary span; an unknown Unicode class parses
\* and fails to compile.
ErrorOf(defect, l1, l2) ==
    CASE defect \in {"GroupUnclosed", "GroupUnopened"} ->
            ParseError(Range(l1, l1 + 1), None)
      [] defect \in {"FlagDuplicate", "FlagRepeatedNegation"} ->
            ParseError(Range(l1 + 3, l1 + 4), <<Range(l1 + 2, l1 + 3)>>)
      [] defect = "GroupNameDuplicate" ->
            ParseError(Range(l1 + l2 + 11, l1 + l2 + 12), <<Range(l1 + 4, l1 + 5)>>)
      [] defect = "UnicodePropertyNotFound" -> CompileError

\* compile_regex on the pattern of t: Ok((Ast, Regex)) or Err(RegexError)
compile_regex(t) ==
    IF t.kind = "Broken"
    THEN [ok |-> FALSE,
          err |-> ErrorOf(t.defect, Len(PatternOf(t.before)), Len(PatternOf(t.after)))]
    ELSE Compiled(PatternOf(t), ParseAt(t, 0, 1).ast)

----------------------------------------------------------------------------
(* Colors (src/app/colors.rs) *)

TRANSPARENT == "TRANSPARENT"

WHITE == "WHITE"

BACKGROUND_COLORS == <<"BG_BLUE", "BG_YELLOW", "BG_PINK">>

\* TextFormat::background
TextFormat_background(background) == [background |-> background, color |-> WHITE]

\* TextFormat { font_id, ..Default::default() }
TextFormat_default == [background |-> TRANSPARENT, color |-> "DEFAULT"]

\* a mutant of CycleColors that does not cycle: past the end of the palette it
\* repeats the last color
CycleColors_without_cycle(n) ==
    <<TRANSPARENT>> \o [i \in 1..n |-> BACKGROUND_COLORS[Min(i, Len(BACKGROUND_COLORS))]]

\* BACKGROUND_COLORS.into_iter().cycle().take(n), after the placeholder of index 0
CycleColors(n) ==
    <<TRANSPARENT>> \o [i \in 1..n |-> BACKGROUND_COLORS[((i - 1) % Len(BACKGROUND_COLORS)) + 1]]

----------------------------------------------------------------------------
(* AST walker (src/app/parsing.rs) *)

\* a variant of the walker in which a repetition does not add to the depth
RECURSIVE ast_find_capture_groups_recurse_flat_repetition(_, _, _)
ast_find_capture_groups_recurse_flat_repetition(depth, ast, st) ==
    IF st.panic THEN st
    ELSE CASE ast.kind = "Repetition" ->
                ast_find_capture_groups_recurse_flat_repetition(depth, ast.ast, st)
           [] ast.kind = "Group" ->
                IF ast.capture_index > 0
                THEN IF Len(st.vec) + 1 # ast.capture_index
                     THEN [st EXCEPT !.panic = TRUE]
                     ELSE ast_find_capture_groups_recurse_flat_repetition(
                              depth + 1, ast.ast,
                              [st EXCEPT !.vec = Append(@, [depth |-> depth, range |-> ast.span])])
                ELSE st
           [] ast.kind \in {"Alternation", "Concat"} ->
                ast_find_capture_groups_recurse_flat_repetition(
                    depth + 1, ast.asts[2],
                    ast_find_capture_groups_recurse_flat_repetition(depth + 1, ast.asts[1], st))
           [] OTHER -> st

\* Walks the tree and pushes (depth, span) of every capture group it visits.
\* st = [vec, panic]; once the assertion has failed nothing more runs.
RECURSIVE ast_find_capture_groups_recurse(_, _, _)
ast_find_capture_groups_recurse(depth, ast, st) ==
    IF st.panic THEN st
    ELSE CASE ast.kind = "Repetition" ->
                ast_find_capture_groups_recurse(depth + 1, ast.ast, st)
           [] ast.kind = "Group" ->
                IF ast.capture_index > 0
                THEN IF Len(st.vec) + 1 # ast.capture_index
                     THEN [st EXCEPT !.panic = TRUE]
                     ELSE ast_find_capture_groups_recurse(
                              depth + 1, ast.ast,
                              [st EXCEPT !.vec = Append(@, [depth |-> depth, range |-> ast.span])])
                ELSE st
           [] ast.kind \in {"Alternation", "Concat"} ->
                ast_find_capture_groups_recurse(
                    depth + 1, ast.asts[2],
                    ast_find_capture_groups_recurse(depth + 1, ast.asts[1], st))
           [] OTHER -> st

ast_find_capture_groups(ast) ==
    ast_find_capture_groups_recurse(0, ast, [vec |-> <<>>, panic |-> FALSE])

----------------------------------------------------------------------------
(* Offset mapper (src/app/text.rs) *)

\* a mutant of str_glyph_count that counts the newlines as glyphs
str_glyph_count_with_newlines(text) == CharCount(text)

str_glyph_count(text) == CharCount(text) - NewlineCount(text)

\* str::get(range): None unless start <= end <= len and both are char boundaries
StrGet(text, s, e) ==
    IF s <= e /\ e <= Len(text) /\ IsCharBoundary(text, s) /\ IsCharBoundary(text, e)
    THEN <<Slice(text, s, e)>>
    ELSE None

\* Some(range) is <<range>>, None is <<>>
convert_byte_range_to_char_range(range, text) ==
    LET head == StrGet(text, 0, range[1])
        tail == StrGet(text, range[1], range[2])
    IN  IF head = None \/ tail = None THEN None
        ELSE LET head_offset == str_glyph_count(head[1])
                 tail_offset == head_offset + str_glyph_count(tail[1])
             IN  <<Range(head_offset, tail_offset)>>

----------------------------------------------------------------------------
(* Format runs (src/app/text.rs) *)

\* slice[range].fill(value), on a 0-based half-open range
Fill(slice, range, value) ==
    [i \in 1..Len(slice) |-> IF range[1] < i /\ i <= range[2] THEN value ELSE slice[i]]

\* a mutant of GroupRuns that forgets the run left over when the loop ends
RECURSIVE GroupRuns_without_last_run(_, _, _, _, _)
GroupRuns_without_last_run(mapping, formats, i, head, sections) ==
    IF i > Len(mapping) - 1
    THEN [panic |-> FALSE, sections |-> sections]
    ELSE IF mapping[i] # mapping[i + 1]
         THEN IF mapping[i] + 1 > Len(formats)
              THEN [panic |-> TRUE]
              ELSE GroupRuns_without_last_run(
                       mapping, formats, i + 1, i,
                       Append(sections,
                              [byte_range |-> Range(head, i),
                               format |-> formats[mapping[i] + 1]]))
         ELSE GroupRuns_without_last_run(mapping, formats, i + 1, head, sections)

\* The loop "derived from Slice::group_by": i is the 1-based number of the
\* window (mapping[i], mapping[i + 1]) and equals the code's `len` while that
\* window is handled.  formats[k + 1] is the format of index k; a missing one
\* is an out-of-bounds index, which panics.
RECURSIVE GroupRuns(_, _, _, _, _)
GroupRuns(mapping, formats, i, head, sections) ==
    IF i > Len(mapping) - 1
    THEN IF head + 1 > Len(mapping) \/ mapping[head + 1] + 1 > Len(formats)
         THEN [panic |-> TRUE]
         ELSE [panic |-> FALSE,
               sections |-> Append(sections,
                                   [byte_range |-> Range(head, i),
                                    format |-> formats[mapping[head + 1] + 1]])]
    ELSE IF mapping[i] # mapping[i + 1]
         THEN IF mapping[i] + 1 > Len(formats)
              THEN [panic |-> TRUE]
              ELSE GroupRuns(mapping, formats, i + 1, i,
                             Append(sections,
                                    [byte_range |-> Range(head, i),
                                     format |-> formats[mapping[i] + 1]]))
         ELSE GroupRuns(mapping, formats, i + 1, head, sections)

\* marks each byte with index + 1 of the last range that holds it
RECURSIVE MarkRanges(_, _, _)
MarkRanges(section_indexes, ranges, k) ==
    IF k > Len(ranges) THEN section_indexes
    ELSE MarkRanges(Fill(section_indexes, ranges[k], k), ranges, k + 1)

\* build_layout_sections(&mut vec![0; len], ranges.enumerate(), font_id, colors)
build_layout_sections(section_indexes, ranges, colors) ==
    GroupRuns(MarkRanges(section_indexes, ranges, 1),
              [k \in 1..Len(colors) |-> TextFormat_background(colors[k])],
              1, 0, <<>>)

\* TextLayoutJob::substring; slicing the text panics unless the range is in
\* bounds and on char boundaries, slicing the mapping unless it is in bounds
TextLayoutJob_substring(job, range) ==
    IF \/ StrGet(job.text, range[1], range[2]) = None
       \/ range[1] > range[2] \/ range[2] > Len(job.mapping)
    THEN [panic |-> TRUE]
    ELSE [panic |-> FALSE,
          text |-> Slice(job.text, range[1], range[2]),
          mapping |-> Slice(job.mapping, range[1], range[2]),
          formats |-> job.formats]

\* text.match_indices(c) for a one-byte char c: the 0-based offsets, ascending
match_indices(text, c) == SelectSeq([i \in 1..Len(text) |-> i - 1], LAMBDA i : text[i + 1] = c)

\* str::replace(c, to) for a one-byte char c
str_replace(text, c, to) ==
    Flatten([i \in 1..Len(text) |-> IF text[i] = c THEN to ELSE <<text[i]>>])

\* mapping.splice(index..=index, repeat(mapping[index]).take(n)); indexing
\* the mapping out of bounds panics
splice(mapping, index, n) ==
    IF index + 1 > Len(mapping) THEN [panic |-> TRUE]
    ELSE [panic |-> FALSE,
          mapping |-> SubSeq(mapping, 1, index)
                          \o [k \in 1..n |-> mapping[index + 1]]
                          \o SubSeq(mapping, index + 2, Len(mapping))]

\* a variant of the loop of replace that never adds to offset
RECURSIVE replace_loop_without_offset(_, _, _, _, _)
replace_loop_without_offset(spliced, indices, k, offset, n) ==
    IF spliced.panic \/ k > Len(indices) THEN spliced
    ELSE replace_loop_without_offset(splice(spliced.mapping, indices[k] + offset, n),
                                     indices, k + 1, offset, n)

\* the loop of TextLayoutJob::replace over the matches, from the k-th on; n
\* is to.len(), which is not 0
RECURSIVE replace_loop(_, _, _, _, _)
replace_loop(spliced, indices, k, offset, n) ==
    IF spliced.panic \/ k > Len(indices) THEN spliced
    ELSE replace_loop(splice(spliced.mapping, indices[k] + offset, n),
                      indices, k + 1, offset + n - 1, n)

\* TextLayoutJob::replace(from, to) for an ASCII byte from and a non-empty to
TextLayoutJob_replaced(job, from, to, spliced) ==
    IF spliced.panic THEN [panic |-> TRUE]
    ELSE [panic |-> FALSE, text |-> str_replace(job.text, from, to),
          mapping |-> spliced.mapping, formats |-> job.formats]

TextLayoutJob_replace(job, from, to) ==
    TextLayoutJob_replaced(
        job, from, to,
        replace_loop([panic |-> FALSE, mapping |-> job.mapping],
                     match_indices(job.text, from), 1, 0, Len(to)))

\* TextLayoutJob::replace_format(pattern, format) for a one-byte pattern
TextLayoutJob_replace_format(job, pattern, format) ==
    IF Len(job.mapping) < Len(job.text)
          /\ \E i \in (Len(job.mapping) + 1)..Len(job.text) : job.text[i] = pattern
    THEN [panic |-> TRUE]
    ELSE [panic |-> FALSE, text |-> job.text,
          mapping |-> [i \in 1..Len(job.mapping) |->
                          IF i <= Len(job.text) /\ job.text[i] = pattern
                          THEN Len(job.formats) ELSE job.mapping[i]],
          formats |-> Append(job.formats, format)]

\* TextLayoutJob::build_layout_sections
TextLayoutJob_build_layout_sections(job) ==
    IF job.text = <<>> THEN [panic |-> FALSE, sections |-> <<>>]
    ELSE GroupRuns(job.mapping, job.formats, 1, 0, <<>>)

\* TextLayoutJob::convert_to_layout_job
LayoutJob_of(text, built) ==
    IF built.panic THEN [panic |-> TRUE]
    ELSE [panic |-> FALSE, text |-> text, sections |-> built.sections]

convert_to_layout_job(job) == LayoutJob_of(job.text, TextLayoutJob_build_layout_sections(job))

----------------------------------------------------------------------------
(* Regex decoration (src/app/text.rs) *)

Zeroes(n) == [i \in 1..n |-> 0]

MaxOf(S) == IF S = {} THEN 0 ELSE CHOOSE m \in S : \A x \in S : x <= m

\* the range lo..=hi as the sequence of its items
RangeInclusive(lo, hi) == [i \in 1..(hi - lo + 1) |-> lo + i - 1]

\* a variant of nth_back that counts from the front, as Iterator::nth does
nth_from_front(iter, n) == IF n < Len(iter) THEN <<iter[n + 1]>> ELSE None

\* DoubleEndedIterator::nth_back: the n-th item from the back, None past the front
nth_back(iter, n) == IF n < Len(iter) THEN <<iter[Len(iter) - n]>> ELSE None

RegexLayout_default ==
    [panic |-> FALSE, job |-> [text |-> <<>>, sections |-> <<>>],
     capture_group_chars |-> <<>>, capture_group_colors |-> <<>>]

\* the layout of a non-empty pattern whose capture groups have these depths
\* and spans, given its format runs
RegexLayout_of(regex, depths, ranges, capture_group_colors, built) ==
    LET max_depth == MaxOf({depths[k] : k \in 1..Len(depths)})
        chars == [k \in 1..Len(ranges) |->
                     convert_byte_range_to_char_range(ranges[k], regex)]
    IN  IF \/ built.panic
           \/ \E k \in 1..Len(chars) : chars[k] = None
           \/ \E k \in 1..Len(depths) :
                 nth_back(RangeInclusive(0, max_depth), depths[k]) = None
        THEN [panic |-> TRUE]
        ELSE [panic |-> FALSE,
              job |-> [text |-> regex, sections |-> built.sections],
              capture_group_chars |->
                  [k \in 1..Len(ranges) |->
                      [depth |-> nth_back(RangeInclusive(0, max_depth), depths[k])[1],
                       range |-> chars[k][1]]],
              capture_group_colors |-> capture_group_colors]

\* regex_parse_ast once the walker has returned `found`
regex_parse_found(regex, found) ==
    IF found.panic THEN [panic |-> TRUE]
    ELSE LET depths == [k \in 1..Len(found.vec) |-> found.vec[k].depth]
             ranges == [k \in 1..Len(found.vec) |-> found.vec[k].range]
             capture_group_colors == CycleColors(Len(found.vec))
         IN  RegexLayout_of(regex, depths, ranges, capture_group_colors,
                            build_layout_sections(Zeroes(Len(regex)), ranges,
                                                  capture_group_colors))

regex_parse_ast(regex, ast) ==
    IF regex = <<>> THEN RegexLayout_default
    ELSE regex_parse_found(regex, ast_find_capture_groups(ast))

----------------------------------------------------------------------------
(* Error decoration (src/app/text.rs) *)

\* TextFormat::simple(font_id, color)
TextFormat_simple(color) == [background |-> TRANSPARENT, color |-> color]

\* plaintext(byte_range, font_id)
plaintext(byte_range) == [byte_range |-> byte_range, format |-> TextFormat_simple("FG_RED")]

\* highlight(byte_range, font_id)
highlight(byte_range) ==
    [byte_range |-> byte_range, format |-> [background |-> "BG_RED", color |-> WHITE]]

\* Span's derived ordering: by start, then by end
SpanLessEq(a, b) == a[1] < b[1] \/ (a[1] = b[1] /\ a[2] <= b[2])

\* Ord::min and Ord::max
SpanMin(a, b) == IF SpanLessEq(a, b) THEN a ELSE b

SpanMax(a, b) == IF SpanLessEq(a, b) THEN b ELSE a

\* a variant of plaintext_suffix that ends the last run where it starts
plaintext_suffix_empty(from, len) == plaintext(Range(from, from))

\* the last run of an error decoration: plaintext(end..regex.len(), font_id)
plaintext_suffix(from, len) == plaintext(Range(from, len))

\* a variant of highlight_pair that takes the two spans in the order given
highlight_pair_unordered(span, aux, len) ==
    <<plaintext(Range(0, span[1])), highlight(span),
      plaintext(Range(span[2], aux[1])), highlight(aux),
      plaintext_suffix(aux[2], len)>>

\* the match arm (Some(span), Some(aux))
highlight_pair(span, aux, len) ==
    highlight_pair_unordered(SpanMin(span, aux), SpanMax(span, aux), len)

\* the sections of layout_regex_err for the pair (span, aux)
layout_regex_err_sections(len, span, aux) ==
    IF span = None THEN <<highlight(Range(0, len))>>
    ELSE IF aux = None
    THEN <<plaintext(Range(0, span[1][1])), highlight(span[1]),
           plaintext_suffix(span[1][2], len)>>
    ELSE highlight_pair(span[1], aux[1], len)

layout_regex_err(regex, err) ==
    [panic |-> FALSE,
     job |-> [text |-> regex,
              sections |-> layout_regex_err_sections(
                               Len(regex),
                               IF err.kind = "Parse" THEN <<err.span>> ELSE None,
                               IF err.kind = "Parse" THEN err.aux ELSE None)],
     capture_group_chars |-> <<>>,
     capture_group_colors |-> <<>>]

----------------------------------------------------------------------------
(* The matcher: regex::Regex::captures_iter                                *)
(*                                                                         *)
(* Option<T> is <<>> for None and <<x>> for Some(x).                       *)

Some(x) == <<x>>

\* caps with slot g set to m
SetSlot(caps, g, m) == [i \in 1..Len(caps) |-> IF i = g THEN m ELSE caps[i]]

\* Results(ast, text, pos, caps): every way `ast` matches at byte pos, in the
\* order of preference of a leftmost-first matcher, each with the end of the
\* match and the capture slots it leaves.
RECURSIVE Results(_, _, _, _)
RECURSIVE ThenResults(_, _, _, _)

ThenResults(rs, k, ast, text) ==
    IF k > Len(rs) THEN <<>>
    ELSE Results(ast, text, rs[k].pos, rs[k].caps) \o ThenResults(rs, k + 1, ast, text)

Results(ast, text, pos, caps) ==
    LET here == <<[pos |-> pos, caps |-> caps]>>
    IN  CASE ast.kind = "Empty" -> here
          [] ast.kind = "Literal" ->
                LET bytes == LiteralText(ast.c)
                IN  IF pos + Len(bytes) <= Len(text)
                       /\ Slice(text, pos, pos + Len(bytes)) = bytes
                    THEN <<[pos |-> pos + Len(bytes), caps |-> caps]>>
                    ELSE <<>>
          [] ast.kind = "Group" ->
                LET rs == Results(ast.ast, text, pos, caps)
                IN  IF ast.capture_index > 0
                    THEN [k \in 1..Len(rs) |->
                            [pos |-> rs[k].pos,
                             caps |-> SetSlot(rs[k].caps, ast.capture_index,
                                              Some(Range(pos, rs[k].pos)))]]
                    ELSE rs
          [] ast.kind = "Concat" ->
                ThenResults(Results(ast.asts[1], text, pos, caps), 1, ast.asts[2], text)
          [] ast.kind = "Alternation" ->
                Results(ast.asts[1], text, pos, caps) \o Results(ast.asts[2], text, pos, caps)
          [] ast.kind = "Repetition" ->
                LET once == Results(ast.ast, text, pos, caps)
                IN  IF ast.op = "?" THEN once \o here
                    ELSE ThenResults(SelectSeq(once, LAMBDA r : r.pos > pos), 1, ast, text)
                         \o here

\* the leftmost match starting at a character boundary >= start: its captures
\* (slot 1 is the whole match, slot g + 1 is group g), or None
RECURSIVE captures_at(_, _, _)
RECURSIVE captures_at_with(_, _, _, _)

\* rs: the ways the pattern matches at start
captures_at_with(regex, text, start, rs) ==
    IF rs = <<>> THEN captures_at(regex, text, start + 1)
    ELSE Some(<<Some(Range(start, rs[1].pos))>> \o rs[1].caps)

captures_at(regex, text, start) ==
    IF start > Len(text) THEN None
    ELSE IF ~IsCharBoundary(text, start) THEN captures_at(regex, text, start + 1)
    ELSE captures_at_with(regex, text, start,
                          Results(regex.prog, text, start, [g \in 1..regex.groups |-> None]))

\* the next character boundary after byte offset e
RECURSIVE NextBoundary(_, _)
NextBoundary(text, e) ==
    IF e + 1 >= Len(text) \/ IsCharBoundary(text, e + 1) THEN e + 1
    ELSE NextBoundary(text, e + 1)

\* Successive non-overlapping matches.  An empty match moves the search one
\* character on, and an empty match right at the end of the previous match
\* is not reported.
RECURSIVE captures_iter_from(_, _, _, _)
RECURSIVE captures_iter_next(_, _, _, _)

\* found: the leftmost match at or after the end of the previous one
captures_iter_next(regex, text, last_match, found) ==
    IF found = None THEN <<>>
    ELSE LET m == found[1][1][1]
         IN  IF m[1] = m[2]
             THEN IF Some(m[2]) = last_match
                  THEN captures_iter_from(regex, text, NextBoundary(text, m[2]), last_match)
                  ELSE <<found[1]>>
                       \o captures_iter_from(regex, text, NextBoundary(text, m[2]),
                                             Some(m[2]))
             ELSE <<found[1]>> \o captures_iter_from(regex, text, m[2], Some(m[2]))

captures_iter_from(regex, text, last_end, last_match) ==
    captures_iter_next(regex, text, last_match, captures_at(regex, text, last_end))

captures_iter(regex, text) == captures_iter_from(regex, text, 0, None)

----------------------------------------------------------------------------
(* Replacement: regex::Regex::replace_all with a &str template             *)

IsDigit(c) == c \in {"0", "1"}

\* a byte of a capture name: [0-9A-Za-z_]
IsCapLetter(c) == c \in {"0", "1", "x"}

\* the end of the run of capture-name bytes that starts at 1-based index i
RECURSIVE CapEnd(_, _)
CapEnd(rep, i) ==
    IF i <= Len(rep) /\ IsCapLetter(rep[i]) THEN CapEnd(rep, i + 1) ELSE i

\* str::parse::<u32> of a run of digits
RECURSIVE ParseNumber(_, _)
ParseNumber(digits, acc) ==
    IF digits = <<>> THEN acc
    ELSE ParseNumber(Tail(digits), acc * 10 + (IF Head(digits) = "1" THEN 1 ELSE 0))

\* the text of the capture a reference names: capture i for a number (the
\* empty string when there is no such group or it took no part), and the
\* empty string for a name, as no group of these patterns is named
CaptureText(name, captures, text) ==
    IF \A k \in 1..Len(name) : IsDigit(name[k])
    THEN LET i == ParseNumber(name, 0)
         IN  IF i + 1 <= Len(captures) /\ captures[i + 1] # None
             THEN Slice(text, captures[i + 1][1][1], captures[i + 1][1][2])
             ELSE <<>>
    ELSE <<>>

\* Captures::expand from the 1-based index i of the template on
RECURSIVE Expand(_, _, _, _)
Expand(rep, i, captures, text) ==
    IF i > Len(rep) THEN <<>>
    ELSE IF rep[i] # "$" THEN <<rep[i]>> \o Expand(rep, i + 1, captures, text)
    ELSE IF i + 1 <= Len(rep) /\ rep[i + 1] = "$"
    THEN <<"$">> \o Expand(rep, i + 2, captures, text)
    ELSE IF CapEnd(rep, i + 1) = i + 1
    THEN <<"$">> \o Expand(rep, i + 1, captures, text)
    ELSE CaptureText(SubSeq(rep, i + 1, CapEnd(rep, i + 1) - 1), captures, text)
         \o Expand(rep, CapEnd(rep, i + 1), captures, text)

\* the text from byte last_match on, with matches k.. of `all` replaced
RECURSIVE ReplaceFrom(_, _, _, _, _)
ReplaceFrom(all, k, last_match, text, rep) ==
    IF k > Len(all) THEN Slice(text, last_match, Len(text))
    ELSE Slice(text, last_match, all[k][1][1][1])
         \o Expand(rep, 1, all[k], text)
         \o ReplaceFrom(all, k + 1, all[k][1][1][2], text, rep)

replace_all(regex, text, rep) == ReplaceFrom(captures_iter(regex, text), 1, 0, text, rep)

----------------------------------------------------------------------------
(* Input decoration (src/app/text.rs) *)

TextLayoutJob_new(text, mapping, formats) ==
    [text |-> text, mapping |-> mapping, formats |-> formats]

TextLayoutJob_default == TextLayoutJob_new(<<>>, <<>>, <<>>)

layout_plain_text_job(text) ==
    TextLayoutJob_new(text, Zeroes(Len(text)), <<TextFormat_default>>)

\* LayoutJob::single_section(text, TextFormat { font_id, ..Default::default() })
layout_plain_text(text) ==
    [panic |-> FALSE, text |-> text,
     sections |-> <<[byte_range |-> Range(0, Len(text)), format |-> TextFormat_default]>>]

\* captures.iter().skip(1).map(..): a mutant that forgets to skip the whole match
char_ranges_with_whole_match(captures, text) ==
    [g \in 1..Len(captures) |->
        IF captures[g] = None THEN None
        ELSE convert_byte_range_to_char_range(captures[g][1], text)]

\* captures.iter().skip(1).map(|m| m.map(|m| convert_byte_range_to_char_range(..)))
\* of one match; a conversion that fails stays None here and is the unwrap()
\* that panics in layout_captures
char_ranges(captures, text) ==
    [g \in 1..(Len(captures) - 1) |->
        IF captures[g + 1] = None THEN None
        ELSE convert_byte_range_to_char_range(captures[g + 1][1], text)]

\* the (index, range) pairs of the groups 1.. that took part in one match
ParticipatingRanges(captures) ==
    LET idx == SelectSeq([g \in 1..(Len(captures) - 1) |-> g],
                         LAMBDA g : captures[g + 1] # None)
    IN  [k \in 1..Len(idx) |-> [index |-> idx[k], range |-> captures[idx[k] + 1][1]]]

\* a mutant of FillIndexed in which a byte keeps the first index written to it
RECURSIVE FillIndexed_first_wins(_, _, _)
FillIndexed_first_wins(section_indexes, ranges, k) ==
    IF k > Len(ranges) THEN section_indexes
    ELSE FillIndexed_first_wins(
             [i \in 1..Len(section_indexes) |->
                 IF section_indexes[i] = 0 /\ InRange(i - 1, ranges[k].range)
                 THEN ranges[k].index ELSE section_indexes[i]],
             ranges, k + 1)

\* for (index, range) in ranges { section_indexes[range].fill(index) }
RECURSIVE FillIndexed(_, _, _)
FillIndexed(section_indexes, ranges, k) ==
    IF k > Len(ranges) THEN section_indexes
    ELSE FillIndexed(Fill(section_indexes, ranges[k].range, ranges[k].index), ranges, k + 1)

\* the loop over regex.captures_iter(&text) and what follows it; all is the
\* sequence of matches the iterator yields
layout_captures(text, all, capture_group_colors) ==
    LET capture_group_chars == [m \in 1..Len(all) |-> char_ranges(all[m], text)]
        unwrap_failed ==
            \E m \in 1..Len(all) : \E g \in 1..(Len(all[m]) - 1) :
                all[m][g + 1] # None /\ capture_group_chars[m][g] = None
        ranges == Flatten([m \in 1..Len(all) |-> ParticipatingRanges(all[m])])
        section_indexes == FillIndexed(Zeroes(Len(text)), ranges, 1)
    IN  IF unwrap_failed THEN [panic |-> TRUE]
        ELSE [panic |-> FALSE,
              job |-> TextLayoutJob_new(
                          text, section_indexes,
                          [k \in 1..Len(capture_group_colors) |->
                              TextFormat_background(capture_group_colors[k])]),
              capture_group_chars |-> capture_group_chars]

\* a variant of layout_matched_text that treats the empty pattern like any other
layout_matched_text_of_any_pattern(text, regex, capture_group_colors) ==
    IF text = <<>>
    THEN [panic |-> FALSE, job |-> TextLayoutJob_default, capture_group_chars |-> <<>>]
    ELSE layout_captures(text, captures_iter(regex, text), capture_group_colors)

layout_matched_text(text, regex, capture_group_colors) ==
    IF text = <<>>
    THEN [panic |-> FALSE, job |-> TextLayoutJob_default, capture_group_chars |-> <<>>]
    ELSE IF regex.as_str = <<>>
    THEN [panic |-> FALSE, job |-> layout_plain_text_job(text), capture_group_chars |-> <<>>]
    ELSE layout_captures(text, captures_iter(regex, text), capture_group_colors)

----------------------------------------------------------------------------
(* Application state (src/app/state.rs) *)

LoopVec_from(vec) == [index |-> 0, vec |-> vec]

\* usize arithmetic, UsizeBits wide
UsizeModulus == 2 ^ UsizeBits

checked_rem(a, b) == IF b = 0 THEN None ELSE <<a % b>>

checked_sub(a, b) == IF a < b THEN None ELSE <<a - b>>

unwrap_or(option, default) == IF option = None THEN default ELSE option[1]

\* LoopVec::get_current: self.vec.get(self.index)
LoopVec_get_current(l) == IF l.index < Len(l.vec) THEN <<l.vec[l.index + 1]>> ELSE None

\* LoopVec::inc.  self.index + 1 overflows at the largest usize: a build with
\* overflow checks panics there, one without wraps around.
LoopVec_inc(l, overflow_checks) ==
    IF l.index + 1 >= UsizeModulus /\ overflow_checks THEN [panic |-> TRUE]
    ELSE [panic |-> FALSE, index |->
             unwrap_or(checked_rem((l.index + 1) % UsizeModulus, Len(l.vec)), l.index),
          vec |-> l.vec]

\* a variant of LoopVec::dec that stays at 0 instead of looping to the tail
LoopVec_dec_without_loop(l, overflow_checks) ==
    IF Len(l.vec) = 0 /\ overflow_checks THEN [panic |-> TRUE]
    ELSE [panic |-> FALSE, index |-> unwrap_or(checked_sub(l.index, 1), 0), vec |-> l.vec]

\* LoopVec::dec.  The argument self.len() - 1 of unwrap_or is computed before
\* the call whatever the index is; on an empty vec it underflows: a build
\* with overflow checks panics there, one without wraps around.
LoopVec_dec(l, overflow_checks) ==
    IF Len(l.vec) = 0 /\ overflow_checks THEN [panic |-> TRUE]
    ELSE [panic |-> FALSE, index |->
             unwrap_or(checked_sub(l.index, 1), (Len(l.vec) - 1) % UsizeModulus),
          vec |-> l.vec]

MatchesSelector_default == [text |-> <<>>, matches |-> LoopVec_from(<<>>)]

\* one LoopVec per match, holding the ranges of the groups (0 included) that
\* took part in it
MatchRanges(captures) ==
    LET idx == SelectSeq([g \in 1..Len(captures) |-> g], LAMBDA g : captures[g] # None)
    IN  [k \in 1..Len(idx) |-> captures[idx[k]][1]]

\* a variant of MatchesSelector_from that does not keep the text
MatchesSelector_from_without_text(all, text) ==
    [text |-> <<>>,
     matches |-> LoopVec_from([m \in 1..Len(all) |-> LoopVec_from(MatchRanges(all[m]))])]

MatchesSelector_from(all, text) ==
    [text |-> text,
     matches |-> LoopVec_from([m \in 1..Len(all) |-> LoopVec_from(MatchRanges(all[m]))])]

MatchesSelector_create_from_regex(regex, text) ==
    MatchesSelector_from(captures_iter(regex, text), text)

LogicState_default ==
    LET compiled == compile_regex(Empty)
    IN  [panic |-> FALSE, ast |-> compiled.ast, regex |-> compiled.regex,
         selector |-> MatchesSelector_default,
         regex_layout |-> RegexLayout_default,
         input_layout |-> [panic |-> FALSE, job |-> TextLayoutJob_default,
                           capture_group_chars |-> <<>>]]

\* the closure of LogicState::new, from layout_matched_text's return on
LogicState_of(compiled, selector, regex_layout, input_layout) ==
    IF input_layout.panic THEN [panic |-> TRUE]
    ELSE [panic |-> FALSE, ast |-> compiled.ast, regex |-> compiled.regex,
          selector |-> selector, regex_layout |-> regex_layout,
          input_layout |-> input_layout]

\* the closure of LogicState::new, from regex_parse_ast's return on
LogicState_laid_out(compiled, text, regex_layout) ==
    IF regex_layout.panic THEN [panic |-> TRUE]
    ELSE LogicState_of(compiled,
                       MatchesSelector_create_from_regex(compiled.regex, text),
                       regex_layout,
                       layout_matched_text(text, compiled.regex,
                                           regex_layout.capture_group_colors))

\* the closure of LogicState::new, given Ok((ast, regex))
LogicState_compiled(compiled, pattern, text) ==
    LogicState_laid_out(compiled, text, regex_parse_ast(pattern, compiled.ast))

\* LogicState::new on the pattern of t: the bundle, or the error in `err`
LogicState_new(t, text) ==
    IF compile_regex(t).ok
    THEN LogicState_compiled(compile_regex(t), PatternOf(t), text)
    ELSE [panic |-> FALSE, err |-> compile_regex(t).err]

----------------------------------------------------------------------------
(* Connector renderer (src/app/ui/editor.rs) *)

\* connecting_lines: TRUE when one of its assert_eq! fails
connecting_lines_asserts_fail(l) ==
    LET regex_ranges == l.regex_layout.capture_group_chars
        colors == l.regex_layout.capture_group_colors
    IN  IF Len(colors) < 2 THEN FALSE
        ELSE \/ Len(regex_ranges) # Len(colors) - 1
             \/ \E m \in 1..Len(l.input_layout.capture_group_chars) :
                   Len(l.input_layout.capture_group_chars[m]) # Len(regex_ranges)

\* What is left of a frame once state.logic holds success bundle l: the input
\* layouter turns the input decoration into format runs, then the connectors
\* are drawn.  Returns where the frame panics, or "none".
RenderFrame(l) ==
    IF convert_to_layout_job(l.input_layout.job).panic THEN "input_layouter"
    ELSE IF connecting_lines_asserts_fail(l) THEN "connecting_lines"
    ELSE "none"

\* the closure of ranges.iter().zip(regex_ranges).zip(regex_colors).filter_map:
\* one connector for every group of match `ranges` that took part
RECURSIVE connectors_of_match(_, _, _, _)
connectors_of_match(ranges, regex_ranges, regex_colors, g) ==
    IF g > Len(ranges) \/ g > Len(regex_ranges) \/ g > Len(regex_colors) THEN <<>>
    ELSE (IF ranges[g] = None THEN <<>>
          ELSE <<[regex_range |-> regex_ranges[g].range, input_range |-> ranges[g][1],
                  width |-> (regex_ranges[g].depth + 1) * 2, color |-> regex_colors[g]]>>)
         \o connectors_of_match(ranges, regex_ranges, regex_colors, g + 1)

\* a variant of connecting_lines that looks at no state and draws one connector
connecting_lines_without_state(lg) ==
    <<[regex_range |-> Range(0, 0), input_range |-> Range(0, 0), width |-> 2,
       color |-> BACKGROUND_COLORS[1]]>>

\* connecting_lines: the shapes it hands to the painter, none when
\* state.logic is an error or the pattern has no capture group
connecting_lines(lg) ==
    IF ~lg.ok THEN <<>>
    ELSE IF Len(lg.state.regex_layout.capture_group_colors) < 2 THEN <<>>
    ELSE Flatten([m \in 1..Len(lg.state.input_layout.capture_group_chars) |->
                     connectors_of_match(lg.state.input_layout.capture_group_chars[m],
                                         lg.state.regex_layout.capture_group_chars,
                                         Tail(lg.state.regex_layout.capture_group_colors),
                                         1)])

\* the job the layouter of regex_editor lays out
regex_layouter(lg, text) ==
    IF lg.ok THEN lg.state.regex_layout.job ELSE layout_regex_err(text, lg.err).job

\* the job the layouter of input_editor lays out
input_layouter(lg, text) ==
    IF lg.ok THEN convert_to_layout_job(lg.state.input_layout.job)
    ELSE layout_plain_text(text)

\* a variant of result_body that empties the result when the pattern is invalid
result_body_clearing_on_error(lg, input, replace, result) ==
    IF lg.ok THEN replace_all(lg.state.regex, input, replace) ELSE <<>>

\* a variant of result_body that always replaces with the default template
result_body_with_default_template(lg, input, replace, result) ==
    IF lg.ok THEN replace_all(lg.state.regex, input, <<"$", "0">>) ELSE result

\* result_body in a frame in which one of the three texts changed: the new
\* state.widgets.result_text
result_body(lg, input, replace, result) ==
    IF lg.ok THEN replace_all(lg.state.regex, input, replace) ELSE result

\* what a frame that runs to its end puts on the screen
Painted(lg, regex, input) ==
    [regex_job |-> regex_layouter(lg, regex),
     input_job |-> [text |-> input_layouter(lg, input).text,
                    sections |-> input_layouter(lg, input).sections],
     connectors |-> connecting_lines(lg)]

----------------------------------------------------------------------------
(* Inputs *)

\* the rejected patterns whose parts are trees of at most n nodes
BrokenUpTo(n, lits, ops) ==
    {Broken(defect, before, after) :
        defect \in Defects,
        before \in SyntaxUpTo(n, lits, ops), after \in SyntaxUpTo(n, lits, ops)}

\* patterns of the editor specification
EditorPatterns ==
    SyntaxUpTo(MaxEditorNodes, {"a"}, {"?", "*"}) \cup BrokenUpTo(MaxEditorBrokenNodes, {"a"}, {})

\* replacement templates of the editor specification
EditorTemplates == {<<>>, <<"$", "0">>, <<"$", "1">>, <<"x", "$", "$">>}

\* texts, formats and replacement strings of the TextLayoutJob specification
JobTexts == {x \in SeqsUpTo({"a", "nl", "C3", "A9"}, MaxJobLen) : IsUtf8(x)}

JobFormats == <<TextFormat_default, TextFormat_background(BACKGROUND_COLORS[1])>>

JobReplacements == {<<"b">>, <<"\\", "n">>, <<"a", "a", "nl">>}

\* vecs of the LoopVec specification
LoopVecs == SeqsUpTo({"a", "b"}, MaxLoopLen)

\* patterns of the error-decoration specification
BrokenPatterns == BrokenUpTo(MaxBrokenNodes, {"a"}, {"?"})

\* input texts of the editor specification
EditorTexts == {x \in SeqsUpTo({"a", "nl"}, MaxEditorTextLen) : IsUtf8(x)}

\* patterns of the regex-decoration specification
RegexPatterns == SyntaxUpTo(MaxNodes, {"a"}, {"?"})

\* patterns and input texts of the match-decoration specification
MatchPatterns == SyntaxUpTo(MaxMatchNodes, {"a", "b"}, {"?"})

MatchTexts == {x \in SeqsUpTo({"a", "b", "nl", "C3", "A9"}, MaxTextLen) : IsUtf8(x)}

\* texts handed to the offset mapper
ConvTexts == {x \in SeqsUpTo({"a", "b", "nl", "C3", "A9"}, MaxConvLen) : IsUtf8(x)}

----------------------------------------------------------------------------
(* State machine *)

Ok(state) == [ok |-> TRUE, state |-> state]

Err(e) == [ok |-> FALSE, err |-> e]

\* AppState::default(); nothing but the two empty editors is on the screen
Init ==
    /\ regex_text = <<>>
    /\ input_text = <<>>
    /\ replace_text = <<"$", "0">>
    /\ result_text = <<>>
    /\ logic = Ok(LogicState_default)
    /\ drawn = [regex_job |-> [text |-> <<>>, sections |-> <<>>],
                input_job |-> [text |-> <<>>, sections |-> <<>>],
                connectors |-> <<>>]
    /\ panic = "none"
    /\ pc = "editing"
    /\ ret = None

\* where a frame panics once state.logic holds lg, or "none"
FramePanic(lg) == IF lg.ok THEN RenderFrame(lg.state) ELSE "none"

\* What is left of a frame in which one of the three texts changed, once
\* state.logic holds lg: the input layouter, result_body, connecting_lines.
\* A panic of the input layouter comes before result_body, one of
\* connecting_lines after it.
Frame(lg, regex, input, replace) ==
    /\ panic' = FramePanic(lg)
    /\ result_text' = IF FramePanic(lg) = "input_layouter" THEN result_text
                      ELSE result_body(lg, input, replace, result_text)
    /\ drawn' = IF FramePanic(lg) = "none" THEN Painted(lg, regex, input) ELSE drawn

\* state.logic = new, unless computing it panicked, and the rest of the frame
Recomputed(new, regex, input, replace) ==
    IF new.panic
    THEN logic' = logic /\ panic' = "LogicState_new" /\ UNCHANGED <<result_text, drawn>>
    ELSE /\ logic' = (IF "err" \in DOMAIN new THEN Err(new.err) ELSE Ok(new))
         /\ Frame(logic', regex, input, replace)

\* a variant of Relaid that leaves the input decoration as it was
Relaid_keeping_decoration(input_layout, regex, input, replace) ==
    /\ logic' = logic
    /\ Frame(logic', regex, input, replace)

\* logic.input_layout = input_layout, unless computing it panicked, and the
\* rest of the frame
Relaid(input_layout, regex, input, replace) ==
    IF input_layout.panic
    THEN logic' = logic /\ panic' = "layout_matched_text" /\ UNCHANGED <<result_text, drawn>>
    ELSE /\ logic' = Ok([logic.state EXCEPT !.input_layout = input_layout])
         /\ Frame(logic', regex, input, replace)

\* regex_editor's layouter after the pattern was edited to the pattern of t,
\* and the rest of that frame
RegexChanged(t) ==
    /\ panic = "none"
    /\ regex_text' = PatternOf(t)
    /\ Recomputed(LogicState_new(t, input_text), PatternOf(t), input_text, replace_text)
    /\ UNCHANGED <<input_text, replace_text, ret>>

\* input_editor's layouter after the input text was edited to text, and the
\* rest of that frame
InputChanged(text) ==
    /\ panic = "none"
    /\ input_text' = text
    /\ IF logic.ok
       THEN Relaid(layout_matched_text(text, logic.state.regex,
                                       logic.state.regex_layout.capture_group_colors),
                   regex_text, text, replace_text)
       ELSE logic' = logic /\ Frame(logic, regex_text, text, replace_text)
    /\ UNCHANGED <<regex_text, replace_text, ret>>

\* replace_editor after the template was edited to template, and the rest of
\* that frame
ReplaceChanged(template) ==
    /\ panic = "none"
    /\ replace_text' = template
    /\ logic' = logic
    /\ Frame(logic, regex_text, input_text, template)
    /\ UNCHANGED <<regex_text, input_text, ret>>

EditRegex == \E t \in EditorPatterns : RegexChanged(t) /\ UNCHANGED pc

EditInput == \E text \in EditorTexts : InputChanged(text) /\ UNCHANGED pc

EditReplace == \E template \in EditorTemplates : ReplaceChanged(template) /\ UNCHANGED pc

Next == EditRegex \/ EditInput \/ EditReplace

Spec == Init /\ [][Next]_vars

----------------------------------------------------------------------------
(* Regex decoration of every pattern: one pattern edit in the default state *)

ParseRegex == pc = "editing" /\ pc' = "done" /\ \E t \in RegexPatterns : RegexChanged(t)

NextRegex == ParseRegex

SpecRegex == Init /\ [][NextRegex]_vars

----------------------------------------------------------------------------
(* Match decoration of every text under every pattern: the input text is   *)
(* entered first, then the pattern                                         *)

EnterText ==
    /\ pc = "editing" /\ pc' = "text"
    /\ \E text \in MatchTexts : InputChanged(text)

MatchRegex == pc = "text" /\ pc' = "done" /\ \E t \in MatchPatterns : RegexChanged(t)

NextMatch == EnterText \/ MatchRegex

SpecMatch == Init /\ [][NextMatch]_vars

----------------------------------------------------------------------------
(* Offset mapper on every text and every byte range *)

InitConv ==
    /\ regex_text = <<>>
    /\ input_text \in ConvTexts
    /\ replace_text = <<"$", "0">>
    /\ result_text = <<>>
    /\ logic = Ok(LogicState_default)
    /\ drawn = [regex_job |-> [text |-> <<>>, sections |-> <<>>],
                input_job |-> [text |-> <<>>, sections |-> <<>>],
                connectors |-> <<>>]
    /\ panic = "none"
    /\ pc = "call"
    /\ ret = None

Convert ==
    /\ pc = "call" /\ pc' = "done"
    /\ \E a \in 0..Len(input_text) : \E b \in 0..Len(input_text) :
          ret' = [range |-> Range(a, b),
                  value |-> convert_byte_range_to_char_range(Range(a, b), input_text)]
    /\ UNCHANGED <<regex_text, input_text, replace_text, result_text, logic, drawn, panic>>

NextConv == Convert

SpecConv == InitConv /\ [][NextConv]_vars

----------------------------------------------------------------------------
(* Error decoration of every rejected pattern *)

LayoutErr ==
    /\ pc = "editing" /\ pc' = "done"
    /\ \E t \in BrokenPatterns :
          /\ regex_text' = PatternOf(t)
          /\ logic' = Err(compile_regex(t).err)
          /\ ret' = layout_regex_err(PatternOf(t), compile_regex(t).err)
    /\ UNCHANGED <<input_text, replace_text, result_text, drawn, panic>>

NextErr == LayoutErr

SpecErr == Init /\ [][NextErr]_vars

----------------------------------------------------------------------------
(* LoopVec under every sequence of inc and dec, in a build with and in a   *)
(* build without overflow checks; ret holds the LoopVec and the build      *)

InitLoop ==
    /\ regex_text = <<>>
    /\ input_text = <<>>
    /\ replace_text = <<"$", "0">>
    /\ result_text = <<>>
    /\ logic = Ok(LogicState_default)
    /\ drawn = [regex_job |-> [text |-> <<>>, sections |-> <<>>],
                input_job |-> [text |-> <<>>, sections |-> <<>>],
                connectors |-> <<>>]
    /\ panic = "none"
    /\ pc = "loop"
    /\ \E vec \in LoopVecs : \E overflow_checks \in BOOLEAN :
          ret = [loop_vec |-> LoopVec_from(vec), overflow_checks |-> overflow_checks]

\* one call of inc or dec that returned `called`
Called(called, where) ==
    /\ panic = "none"
    /\ IF called.panic
       THEN panic' = where /\ ret' = ret
       ELSE /\ panic' = "none"
            /\ ret' = [ret EXCEPT !.loop_vec = [index |-> called.index, vec |-> called.vec]]
    /\ UNCHANGED <<regex_text, input_text, replace_text, result_text, logic, drawn, pc>>

Inc == pc = "loop" /\ Called(LoopVec_inc(ret.loop_vec, ret.overflow_checks), "LoopVec_inc")

Dec == pc = "loop" /\ Called(LoopVec_dec(ret.loop_vec, ret.overflow_checks), "LoopVec_dec")

NextLoop == Inc \/ Dec

SpecLoop == InitLoop /\ [][NextLoop]_vars

----------------------------------------------------------------------------
(* TextLayoutJob: one call of substring, replace_format or replace on a    *)
(* job with one format index per byte; ret holds the job and the call      *)

InitJob ==
    /\ regex_text = <<>>
    /\ input_text = <<>>
    /\ replace_text = <<"$", "0">>
    /\ result_text = <<>>
    /\ logic = Ok(LogicState_default)
    /\ drawn = [regex_job |-> [text |-> <<>>, sections |-> <<>>],
                input_job |-> [text |-> <<>>, sections |-> <<>>],
                connectors |-> <<>>]
    /\ panic = "none"
    /\ pc = "job"
    /\ \E text \in JobTexts : \E mapping \in [1..Len(text) -> 0..(Len(JobFormats) - 1)] :
          ret = [job |-> TextLayoutJob_new(text, mapping, JobFormats)]

\* the call `call` on the job of ret returned `returned`
Returned(call, returned, where) ==
    /\ IF returned.panic
       THEN panic' = where /\ ret' = ret
       ELSE /\ panic' = "none"
            /\ ret' = [job |-> ret.job, call |-> call,
                       returned |-> TextLayoutJob_new(returned.text, returned.mapping,
                                                      returned.formats)]
    /\ UNCHANGED <<regex_text, input_text, replace_text, result_text, logic, drawn>>

Substring ==
    /\ pc = "job" /\ pc' = "done"
    /\ \E s \in 0..Len(ret.job.text) : \E e \in 0..Len(ret.job.text) :
        Returned([fn |-> "substring", range |-> Range(s, e)],
                 TextLayoutJob_substring(ret.job, Range(s, e)),
                 "TextLayoutJob_substring")

ReplaceFormat ==
    /\ pc = "job" /\ pc' = "done"
    /\ \E pattern \in {"a", "nl"} :
        Returned([fn |-> "replace_format", pattern |-> pattern],
                 TextLayoutJob_replace_format(ret.job, pattern, TextFormat_simple("DARK_GRAY")),
                 "TextLayoutJob_replace_format")

Replace ==
    /\ pc = "job" /\ pc' = "done"
    /\ \E from \in {"a", "nl"} : \E to \in JobReplacements :
        Returned([fn |-> "replace", from |-> from, to |-> to],
                 TextLayoutJob_replace(ret.job, from, to),
                 "TextLayoutJob_replace")

NextJob == Substring \/ ReplaceFormat \/ Replace

SpecJob == InitJob /\ [][NextJob]_vars

----------------------------------------------------------------------------
(* Reference definitions used by the properties *)

\* every capturing group of a tree, wherever it sits: its index and span
RECURSIVE AllGroups(_)
AllGroups(ast) ==
    CASE ast.kind \in {"Empty", "Literal"} -> {}
      [] ast.kind = "Group" ->
            (IF ast.capture_index > 0
             THEN {[index |-> ast.capture_index, span |-> ast.span]} ELSE {})
            \cup AllGroups(ast.ast)
      [] ast.kind = "Repetition" -> AllGroups(ast.ast)
      [] ast.kind \in {"Concat", "Alternation"} ->
            AllGroups(ast.asts[1]) \cup AllGroups(ast.asts[2])

\* the runs are non-empty, in ascending order, and cover [0, n) exactly
Tiles(sections, n) ==
    /\ Len(sections) >= 1
    /\ sections[1].byte_range[1] = 0
    /\ sections[Len(sections)].byte_range[2] = n
    /\ \A k \in 1..Len(sections) : sections[k].byte_range[1] < sections[k].byte_range[2]
    /\ \A k \in 2..Len(sections) :
          sections[k].byte_range[1] = sections[k - 1].byte_range[2]

\* the run that covers byte b (0-based)
RunAt(sections, b) ==
    CHOOSE k \in 1..Len(sections) :
        sections[k].byte_range[1] <= b /\ b < sections[k].byte_range[2]

\* a pattern edit has been handled completely and left a success bundle
Built == pc = "done" /\ panic # "LogicState_new"

----------------------------------------------------------------------------
(* C1 .. C10 *)

\* C1: for every parseable pattern with N capturing groups, at any nesting
\* (inside non-capturing groups too), ast_find_capture_groups returns exactly
\* N entries, the i-th being the span of the group with capture index i.
C1_WalkerFindsEveryGroup ==
    pc = "done" =>
        /\ panic # "LogicState_new"
        /\ LET found == ast_find_capture_groups(logic.state.ast)
           IN  /\ ~found.panic
               /\ Len(found.vec) = Cardinality(AllGroups(logic.state.ast))
               /\ \A g \in AllGroups(logic.state.ast) :
                     g.index <= Len(found.vec) /\ found.vec[g.index].range = g.span

\* C2: the format runs of the regex decoration of a non-empty pattern are
\* non-empty, ascending and contiguous, start at byte 0 and end at
\* len(pattern).
C2_RegexRunsTile ==
    (Built /\ regex_text # <<>>) =>
        Tiles(logic.state.regex_layout.job.sections, Len(regex_text))

\* a regex decoration with at least three runs has been built
C2_Witness ==
    /\ Built /\ regex_text # <<>>
    /\ Len(logic.state.regex_layout.job.sections) >= 3

\* C3: for non-empty text and a non-empty compiled pattern the input
\* decoration is produced without a panic, every marker indexes the colors
\* list, and its format runs tile [0, len(text)).
C3_InputRunsTile ==
    (Built /\ input_text # <<>> /\ regex_text # <<>>) =>
        /\ panic # "input_layouter"
        /\ \A i \in 1..Len(logic.state.input_layout.job.mapping) :
              logic.state.input_layout.job.mapping[i] + 1
                  <= Len(logic.state.regex_layout.capture_group_colors)
        /\ LET job == convert_to_layout_job(logic.state.input_layout.job)
           IN  ~job.panic /\ Tiles(job.sections, Len(input_text))

\* the background the innermost capture group holding byte b of the pattern
\* should give it: the sentinel when no group holds it
InnermostColor(ast, colors, b) ==
    LET gs == {g \in AllGroups(ast) : InRange(b, g.span)}
    IN  IF gs = {} THEN TRANSPARENT
        ELSE LET inner == CHOOSE g \in gs : \A h \in gs : h.index <= g.index
             IN  IF inner.index + 1 <= Len(colors) THEN colors[inner.index + 1]
                 ELSE "no color"

\* C4: in the regex decoration every byte inside a capture group's span has
\* the background of the innermost capture group that holds it, and every
\* other byte has the transparent sentinel of index 0.
C4_InnermostGroupColors ==
    (Built /\ regex_text # <<>>) =>
        \A b \in 0..(Len(regex_text) - 1) :
            LET sections == logic.state.regex_layout.job.sections
            IN  /\ \E k \in 1..Len(sections) : InRange(b, sections[k].byte_range)
                /\ sections[RunAt(sections, b)].format.background
                       = InnermostColor(logic.state.ast,
                                        logic.state.regex_layout.capture_group_colors, b)

\* the number of glyphs of text[a..b): its characters that are not newlines
Glyphs(text, a, b) ==
    Cardinality({i \in (a + 1)..b : ~IsContinuation(text[i]) /\ text[i] # "nl"})

\* the groups whose range in some match of `all` holds byte b
GroupsAt(all, b) ==
    {g \in 1..Max(0, MaxOf({Len(all[m]) : m \in 1..Len(all)}) - 1) :
        \E m \in 1..Len(all) : all[m][g + 1] # None /\ InRange(b, all[m][g + 1][1])}

\* C5: each byte of the input text is marked with the highest capture index
\* among the participating groups whose matched range holds it, and with 0
\* when no such group holds it.
C5_MarkerIsHighestGroup ==
    (Built /\ input_text # <<>> /\ regex_text # <<>>) =>
        LET all == captures_iter(logic.state.regex, input_text)
            mapping == logic.state.input_layout.job.mapping
        IN  /\ Len(mapping) = Len(input_text)
            /\ \A b \in 0..(Len(input_text) - 1) : mapping[b + 1] = MaxOf(GroupsAt(all, b))

\* pattern ((a)b) on text ab: byte 0 has the inner group's color, byte 1 the
\* outer group's
C5_Witness ==
    /\ Built /\ panic = "none"
    /\ regex_text = <<"(", "(", "a", ")", "b", ")">>
    /\ input_text = <<"a", "b">>
    /\ logic.state.input_layout.job.mapping = <<2, 1>>
    /\ convert_to_layout_job(logic.state.input_layout.job).sections
         = <<[byte_range |-> <<0, 1>>, format |-> TextFormat_background("BG_YELLOW")],
             [byte_range |-> <<1, 2>>, format |-> TextFormat_background("BG_BLUE")]>>

\* C6: the matches table has one entry per whole match, in match order; each
\* entry has one slot per capture group of the pattern; a slot is absent
\* exactly when its group took no part in the match, and otherwise holds the
\* glyph range of the group's byte range.
C6_MatchesTable ==
    (Built /\ input_text # <<>> /\ regex_text # <<>>) =>
        LET all == captures_iter(logic.state.regex, input_text)
            table == logic.state.input_layout.capture_group_chars
            N == Cardinality(AllGroups(logic.state.ast))
        IN  /\ Len(table) = Len(all)
            /\ \A m \in 1..Len(table) :
                  /\ Len(table[m]) = N
                  /\ \A g \in 1..N :
                        IF all[m][g + 1] = None THEN table[m][g] = None
                        ELSE table[m][g]
                               = Some(Range(Glyphs(input_text, 0, all[m][g + 1][1][1]),
                                            Glyphs(input_text, 0, all[m][g + 1][1][2])))

\* pattern (a)|(b) on a newline followed by a: one match, whose group 1 holds
\* bytes [1, 2), that is glyphs [0, 1), and whose group 2 took no part
C6_Witness ==
    /\ Built /\ panic = "none"
    /\ regex_text = <<"(", "a", ")", "|", "(", "b", ")">>
    /\ input_text = <<"nl", "a">>
    /\ captures_iter(logic.state.regex, input_text)
         = <<<<Some(<<1, 2>>), Some(<<1, 2>>), None>>>>
    /\ logic.state.input_layout.capture_group_chars = <<<<Some(<<0, 1>>), None>>>>

\* C7: every entry of input_layout.capture_group_chars is as long as
\* regex_layout.capture_group_chars, so the assert_eq! of connecting_lines
\* never fails.
C7_ConnectorAssertionHolds ==
    Built =>
        /\ \A m \in 1..Len(logic.state.input_layout.capture_group_chars) :
              Len(logic.state.input_layout.capture_group_chars[m])
                  = Len(logic.state.regex_layout.capture_group_chars)
        /\ panic # "connecting_lines"

\* C8: on a byte range [a, b) with a <= b <= len(text) and both ends on
\* character boundaries the offset mapper returns
\* [g(text[0..a]), g(text[0..a]) + g(text[a..b])), g counting the characters
\* that are not newlines; so start <= end <= g(text).
C8_GlyphRange ==
    (pc = "done" /\ ret # None) =>
        LET a == ret.range[1]
            b == ret.range[2]
        IN  (a <= b /\ IsCharBoundary(input_text, a) /\ IsCharBoundary(input_text, b)) =>
                /\ ret.value = Some(Range(Glyphs(input_text, 0, a),
                                          Glyphs(input_text, 0, a) + Glyphs(input_text, a, b)))
                /\ ret.value[1][1] <= ret.value[1][2]
                /\ ret.value[1][2] <= Glyphs(input_text, 0, Len(input_text))

\* the three bytes a, newline, b give a glyph range of length 2
C8_Witness ==
    /\ pc = "done"
    /\ input_text = <<"a", "nl", "b">>
    /\ ret = [range |-> <<0, 3>>, value |-> Some(<<0, 2>>)]

\* C9: with N groups found by the walker, capture_group_colors has N + 1
\* entries, entry 0 is the transparent sentinel and entry i is
\* BACKGROUND_COLORS[(i - 1) mod 3]; so there are as many colors after the
\* sentinel as entries of the capture group table.
C9_CycledColors ==
    (Built /\ regex_text # <<>>) =>
        LET N == Len(ast_find_capture_groups(logic.state.ast).vec)
            colors == logic.state.regex_layout.capture_group_colors
        IN  /\ Len(colors) = N + 1
            /\ colors[1] = TRANSPARENT
            /\ \A i \in 1..N :
                  colors[i + 1] = <<"BG_BLUE", "BG_YELLOW", "BG_PINK">>[((i - 1) % 3) + 1]
            /\ Len(colors) - 1 = Len(logic.state.regex_layout.capture_group_chars)

\* a pattern with more groups than the palette has colors
C9_Witness ==
    /\ Built
    /\ Len(logic.state.regex_layout.capture_group_colors) >= 5
    /\ logic.state.regex_layout.capture_group_colors[5] = "BG_BLUE"

\* group j immediately encloses group i: j's span holds i's and no group lies
\* between the two
ImmediatelyEncloses(vec, j, i) ==
    LET Encloses(x, y) ==
            /\ x # y
            /\ vec[x].range[1] <= vec[y].range[1]
            /\ vec[y].range[2] <= vec[x].range[2]
    IN  /\ Encloses(j, i)
        /\ ~\E k \in 1..Len(vec) : Encloses(j, k) /\ Encloses(k, i)

\* C10: a capture group never has the background color of the capture group
\* that immediately encloses it.
C10_NestedGroupsDiffer ==
    (Built /\ regex_text # <<>>) =>
        LET vec == ast_find_capture_groups(logic.state.ast).vec
            colors == logic.state.regex_layout.capture_group_colors
        IN  \A i, j \in 1..Len(vec) :
                ImmediatelyEncloses(vec, j, i) => colors[i + 1] # colors[j + 1]

----------------------------------------------------------------------------
(* C11 .. C20 *)

\* the handled edit left a success bundle behind a success bundle and the
\* frame ran to its end
EditedOkToOk == logic.ok /\ logic'.ok /\ panic' = "none" /\ regex_text' # regex_text

\* C11: across every successful pattern edit, every capture index i that had
\* color c_i in the previous regex decoration and still exists in the new
\* pattern has color c_i in the new regex decoration.
C11_ColorsStable ==
    [][EditedOkToOk =>
          \A i \in 1..Len(logic.state.regex_layout.capture_group_colors) - 1 :
              (\E g \in AllGroups(logic'.state.ast) : g.index = i) =>
                  /\ i + 1 <= Len(logic'.state.regex_layout.capture_group_colors)
                  /\ logic'.state.regex_layout.capture_group_colors[i + 1]
                         = logic.state.regex_layout.capture_group_colors[i + 1]]_vars

\* C12: in the regex and input decorations a format run whose marker is not 0
\* has a white foreground and the background of its group, and a run whose
\* marker is 0 has the default foreground.  The marker of a run of the regex
\* decoration is 0 exactly when its background is the sentinel.
C12_RunForeground ==
    (Built /\ panic = "none") =>
        /\ \A k \in 1..Len(logic.state.regex_layout.job.sections) :
              logic.state.regex_layout.job.sections[k].format.color
                  = (IF logic.state.regex_layout.job.sections[k].format.background
                           = TRANSPARENT
                     THEN TextFormat_default.color ELSE WHITE)
        /\ \A k \in 1..Len(convert_to_layout_job(logic.state.input_layout.job).sections) :
              LET run == convert_to_layout_job(logic.state.input_layout.job).sections[k]
                  marker == logic.state.input_layout.job.mapping[run.byte_range[1] + 1]
              IN  run.format
                      = (IF marker = 0 THEN TextFormat_default
                         ELSE [background |->
                                   logic.state.regex_layout.capture_group_colors[marker + 1],
                               color |-> WHITE])

\* no two adjacent runs have the same style
Maximal(sections) ==
    \A k \in 2..Len(sections) : sections[k].format # sections[k - 1].format

\* C13: every format run of a regex or input decoration is maximal: no two
\* adjacent runs of the same decoration have the same background and
\* foreground color.
C13_RunsMaximal ==
    (Built /\ panic = "none") =>
        /\ Maximal(logic.state.regex_layout.job.sections)
        /\ Maximal(convert_to_layout_job(logic.state.input_layout.job).sections)

\* the tree the current pattern text is parsed from
Parsed(text) == CHOOSE t \in EditorPatterns : PatternOf(t) = text

\* the bundle l holds what `compiled`, the current pattern and the current
\* input text give
DecorationsCurrent(l, compiled) ==
    /\ l.ok
    /\ l.state.ast = compiled.ast
    /\ l.state.regex = compiled.regex
    /\ l.state.regex_layout = regex_parse_ast(regex_text, compiled.ast)
    /\ l.state.input_layout
          = layout_matched_text(input_text, compiled.regex,
                                l.state.regex_layout.capture_group_colors)

\* C14: after any sequence of pattern and input edits, whenever the current
\* pattern compiles, state.logic is a success bundle whose regex decoration is
\* regex_parse_ast of the current pattern and whose input decoration is
\* layout_matched_text of the current input text, the current matcher and the
\* current capture_group_colors.
C14_DecorationsCurrent ==
    (panic = "none" /\ compile_regex(Parsed(regex_text)).ok) =>
        DecorationsCurrent(logic, compile_regex(Parsed(regex_text)))

\* a pattern with a capture group that matches the input text
C14_Witness ==
    /\ panic = "none"
    /\ regex_text = <<"(", "a", ")", "?">>
    /\ input_text = <<"a">>
    /\ logic.ok
    /\ logic.state.input_layout.job.mapping = <<1>>

\* C15: after any sequence of pattern, input and template edits, whenever the
\* current pattern compiles, result_text is replace_all of the current
\* matcher on the current input text and the current template.
C15_ResultCurrent ==
    (panic = "none" /\ compile_regex(Parsed(regex_text)).ok) =>
        result_text = replace_all(compile_regex(Parsed(regex_text)).regex,
                                  input_text, replace_text)

\* a template that refers to a capture group, and a match to replace
C15_Witness ==
    /\ panic = "none"
    /\ regex_text = <<"(", "a", ")">>
    /\ input_text = <<"a">>
    /\ replace_text = <<"x", "$", "$">>
    /\ result_text = <<"x", "$">>

\* C16: no step that ends in an error state modifies result_text: it keeps the
\* value of the last success state.
C16_ResultKept == [][~logic'.ok => result_text' = result_text]_vars

\* an error state whose result_text is not what the current input text gives
C16_Witness ==
    /\ ~logic.ok
    /\ result_text = <<"a">>
    /\ input_text = <<"nl">>
    /\ replace_text = <<>>

\* C17: a frame that ends in an error state leaves nothing of a bundle behind:
\* state.logic holds the error only, no connector is drawn, result_text is
\* not written, and the input text is laid out as one plain run.
C17_NoPartialResults ==
    [][(~logic'.ok /\ panic' = "none") =>
          /\ DOMAIN logic' = {"ok", "err"}
          /\ drawn'.connectors = <<>>
          /\ result_text' = result_text
          /\ drawn'.input_job
                = [text |-> input_text',
                   sections |-> <<[byte_range |-> Range(0, Len(input_text')),
                                   format |-> TextFormat_default]>>]]_vars

\* an error state that follows a bundle with a matched capture group
C17_Witness ==
    /\ ~logic.ok
    /\ panic = "none"
    /\ replace_text = <<"$", "1">>
    /\ result_text = <<"a">>
    /\ input_text = <<"a">>
    /\ drawn.connectors = <<>>

\* the runs tile [0, n): each starts where the one before ends, none ends
\* before it starts; empty runs are allowed
TilesLoosely(sections, n) ==
    /\ sections[1].byte_range[1] = 0
    /\ sections[Len(sections)].byte_range[2] = n
    /\ \A k \in 1..Len(sections) : sections[k].byte_range[1] <= sections[k].byte_range[2]
    /\ \A k \in 2..Len(sections) :
          sections[k].byte_range[1] = sections[k - 1].byte_range[2]

\* layout_regex_err has returned
ErrLaidOut == pc = "done" /\ ~logic.ok /\ ret # None

\* C18: for an error without auxiliary span layout_regex_err returns, for a
\* Parse error with span P, exactly the three runs plain [0, P.start),
\* highlighted [P.start, P.end), plain [P.end, len), and for a Compile error
\* exactly one highlighted run [0, len); the runs tile the pattern, and
\* capture_group_chars and capture_group_colors are empty.
C18_ErrorRunsWithoutAux ==
    (ErrLaidOut /\ (logic.err.kind = "Parse" => logic.err.aux = None)) =>
        /\ ret.job.text = regex_text
        /\ ret.capture_group_chars = <<>>
        /\ ret.capture_group_colors = <<>>
        /\ TilesLoosely(ret.job.sections, Len(regex_text))
        /\ ret.job.sections
              = (IF logic.err.kind = "Parse"
                 THEN <<[byte_range |-> Range(0, logic.err.span[1]),
                         format |-> [background |-> TRANSPARENT, color |-> "FG_RED"]],
                        [byte_range |-> logic.err.span,
                         format |-> [background |-> "BG_RED", color |-> WHITE]],
                        [byte_range |-> Range(logic.err.span[2], Len(regex_text)),
                         format |-> [background |-> TRANSPARENT, color |-> "FG_RED"]]>>
                 ELSE <<[byte_range |-> Range(0, Len(regex_text)),
                         format |-> [background |-> "BG_RED", color |-> WHITE]]>>)

\* an unclosed group in the middle of a pattern
C18_Witness ==
    /\ ErrLaidOut
    /\ regex_text = <<"a", "(", "a", "?">>
    /\ logic.err.kind = "Parse"
    /\ logic.err.aux = None
    /\ Len(ret.job.sections) = 3

\* C19: for a Parse error with span and auxiliary span layout_regex_err
\* returns exactly five runs: plain, the span that starts first highlighted,
\* plain, the other span highlighted, plain; no run ends before it starts and
\* each starts where the one before ends, so they tile the pattern.
C19_ErrorRunsWithAux ==
    (ErrLaidOut /\ logic.err.kind = "Parse" /\ logic.err.aux # None) =>
        /\ Len(ret.job.sections) = 5
        /\ TilesLoosely(ret.job.sections, Len(regex_text))
        /\ \A k \in {1, 3, 5} :
              ret.job.sections[k].format = [background |-> TRANSPARENT, color |-> "FG_RED"]
        /\ \A k \in {2, 4} :
              ret.job.sections[k].format = [background |-> "BG_RED", color |-> WHITE]
        /\ {ret.job.sections[2].byte_range, ret.job.sections[4].byte_range}
              = {logic.err.span, logic.err.aux[1]}
        /\ ret.job.sections[2].byte_range[1] <= ret.job.sections[4].byte_range[1]

\* a duplicate group name: the two names are apart, the gap is not empty
C19_Witness ==
    /\ ErrLaidOut
    /\ logic.err.kind = "Parse"
    /\ logic.err.aux # None
    /\ Len(ret.job.sections) = 5
    /\ ret.job.sections[3].byte_range[1] < ret.job.sections[3].byte_range[2]
    /\ ret.job.sections[1].byte_range[2] > 0

\* C20: for the empty pattern and a non-empty input text the regex decoration
\* is the default one (empty text, no run, empty group table, no color) and
\* the input decoration is exactly one plain run [0, len(text)) with an empty
\* matches table.
C20_EmptyPattern ==
    (regex_text = <<>> /\ input_text # <<>>) =>
        /\ panic = "none"
        /\ logic.ok
        /\ logic.state.regex_layout.job = [text |-> <<>>, sections |-> <<>>]
        /\ logic.state.regex_layout.capture_group_chars = <<>>
        /\ logic.state.regex_layout.capture_group_colors = <<>>
        /\ logic.state.input_layout.capture_group_chars = <<>>
        /\ logic.state.input_layout.job.text = input_text
        /\ convert_to_layout_job(logic.state.input_layout.job).sections
              = <<[byte_range |-> Range(0, Len(input_text)),
                   format |-> TextFormat_default]>>

\* the pattern was emptied under a text at every position of which it matches
C20_Witness ==
    /\ pc = "done"
    /\ regex_text = <<>>
    /\ input_text = <<"a", "b">>
    /\ Len(captures_iter(logic.state.regex, input_text)) = 3

----------------------------------------------------------------------------
(* C21 .. C30 *)

\* C21: for the empty pattern result_text equals the input text, for every
\* input text and every replacement template.
C21_EmptyPatternKeepsInput ==
    (regex_text = <<>> /\ panic = "none") => result_text = input_text

\* C22: for the empty input text and any compiled pattern layout_matched_text
\* returns the default decoration, which holds exactly one plain format run
\* and an empty matches table.
C22_EmptyInput ==
    (Built /\ panic = "none" /\ input_text = <<>>) =>
        /\ logic.state.input_layout.capture_group_chars = <<>>
        /\ logic.state.input_layout.job = TextLayoutJob_default
        /\ Len(convert_to_layout_job(logic.state.input_layout.job).sections) = 1
        /\ convert_to_layout_job(logic.state.input_layout.job).sections[1].format
              = TextFormat_default

ParsedIn(patterns, text) == CHOOSE t \in patterns : PatternOf(t) = text

\* C24: for every AST the parser can produce, capturing groups inside
\* non-capturing groups followed by further capturing groups included, the
\* walker's consecutive-index assertion holds and the walk completes.
C24_WalkCompletes ==
    pc = "done" =>
        ~ast_find_capture_groups(
             compile_regex(ParsedIn(RegexPatterns, regex_text)).ast).panic

\* every capturing group of a tree with the number of concatenation,
\* alternation, repetition and group nodes above it, d of them above the tree
RECURSIVE GroupsBelow(_, _)
GroupsBelow(ast, d) ==
    CASE ast.kind = "Group" ->
            (IF ast.capture_index > 0
             THEN {[index |-> ast.capture_index, span |-> ast.span, depth |-> d]} ELSE {})
            \cup GroupsBelow(ast.ast, d + 1)
      [] ast.kind = "Repetition" -> GroupsBelow(ast.ast, d + 1)
      [] ast.kind \in {"Concat", "Alternation"} ->
            GroupsBelow(ast.asts[1], d + 1) \cup GroupsBelow(ast.asts[2], d + 1)
      [] OTHER -> {}

\* C25: the depth the walker reports for a capture group is the number of
\* concatenation, alternation, repetition and group nodes, capturing or not,
\* that are proper ancestors of the group; 0 for a group at the root.
C25_StructuralDepth ==
    (Built /\ regex_text # <<>>) =>
        \A k \in 1..Len(ast_find_capture_groups(logic.state.ast).vec) :
            [index |-> k,
             span |-> ast_find_capture_groups(logic.state.ast).vec[k].range,
             depth |-> ast_find_capture_groups(logic.state.ast).vec[k].depth]
                \in GroupsBelow(logic.state.ast, 0)

\* a group below a repetition below a concatenation, and one at the root
C25_Witness ==
    /\ Built
    /\ regex_text = <<"a", "(", "(", "a", ")", ")", "?">>
    /\ Len(ast_find_capture_groups(logic.state.ast).vec) = 2
    /\ ast_find_capture_groups(logic.state.ast).vec[1].depth = 2
    /\ ast_find_capture_groups(logic.state.ast).vec[2].depth = 3

\* C26: the depth stored in capture_group_chars for group i is max_depth minus
\* the walker's depth of group i, max_depth being the largest walker depth of
\* the pattern: it lies in [0, max_depth], is 0 for the deepest group, and of
\* two groups the one less deep stores the larger value and gets the thicker
\* connector.
C26_InvertedDepth ==
    (Built /\ regex_text # <<>>) =>
        LET vec == ast_find_capture_groups(logic.state.ast).vec
            chars == logic.state.regex_layout.capture_group_chars
            max_depth == MaxOf({vec[k].depth : k \in 1..Len(vec)})
        IN  /\ Len(chars) = Len(vec)
            /\ \A k \in 1..Len(vec) :
                  /\ chars[k].depth = max_depth - vec[k].depth
                  /\ chars[k].depth \in 0..max_depth
                  /\ vec[k].depth = max_depth => chars[k].depth = 0
            /\ \A j, k \in 1..Len(vec) :
                  vec[j].depth < vec[k].depth =>
                      /\ chars[j].depth > chars[k].depth
                      /\ (chars[j].depth + 1) * 2 > (chars[k].depth + 1) * 2

\* two groups of different depth below a concatenation
C26_Witness ==
    /\ Built
    /\ regex_text = <<"(", "a", ")", "(", "(", "a", ")", ")">>
    /\ Len(logic.state.regex_layout.capture_group_chars) = 3
    /\ logic.state.regex_layout.capture_group_chars[1].depth = 1
    /\ logic.state.regex_layout.capture_group_chars[3].depth = 0

\* C27: after any sequence of pattern and input edits, in a success state the
\* selector holds the current input text and every match range it stores lies
\* within the text of the current input decoration.
C27_SelectorCurrent ==
    (logic.ok /\ panic = "none") =>
        /\ logic.state.selector.text = input_text
        /\ \A m \in 1..Len(logic.state.selector.matches.vec) :
              \A g \in 1..Len(logic.state.selector.matches.vec[m].vec) :
                  logic.state.selector.matches.vec[m].vec[g][2]
                      <= Len(logic.state.input_layout.job.text)

\* C28: in a non-empty LoopVec of length n the index stays in [0, n) under
\* every sequence of inc and dec, so get_current returns an element; inc
\* moves index i to (i + 1) mod n, dec moves it to (i - 1) mod n, and inc
\* followed by dec, or dec followed by inc, restores the index.
C28_LoopVecLoops ==
    (pc = "loop" /\ Len(ret.loop_vec.vec) > 0) =>
        /\ panic = "none"
        /\ ret.loop_vec.index \in 0..(Len(ret.loop_vec.vec) - 1)
        /\ LoopVec_get_current(ret.loop_vec)
              = <<ret.loop_vec.vec[ret.loop_vec.index + 1]>>
        /\ LoopVec_inc(ret.loop_vec, ret.overflow_checks)
              = [panic |-> FALSE,
                 index |-> (ret.loop_vec.index + 1) % Len(ret.loop_vec.vec),
                 vec |-> ret.loop_vec.vec]
        /\ LoopVec_dec(ret.loop_vec, ret.overflow_checks)
              = [panic |-> FALSE,
                 index |-> (ret.loop_vec.index + Len(ret.loop_vec.vec) - 1)
                               % Len(ret.loop_vec.vec),
                 vec |-> ret.loop_vec.vec]
        /\ LoopVec_dec(LoopVec_inc(ret.loop_vec, ret.overflow_checks),
                       ret.overflow_checks).index = ret.loop_vec.index
        /\ LoopVec_inc(LoopVec_dec(ret.loop_vec, ret.overflow_checks),
                       ret.overflow_checks).index = ret.loop_vec.index

\* the index at the tail of a LoopVec of three
C28_Witness ==
    /\ pc = "loop"
    /\ panic = "none"
    /\ ret.loop_vec = [index |-> 2, vec |-> <<"a", "b", "a">>]

\* C29: on an empty LoopVec inc and dec complete without underflow or
\* overflow and leave the index at 0, and get_current returns None after any
\* sequence of inc and dec.
C29_EmptyLoopVec ==
    (pc = "loop" /\ Len(ret.loop_vec.vec) = 0) =>
        /\ panic = "none"
        /\ ret.loop_vec.index = 0
        /\ LoopVec_get_current(ret.loop_vec) = None

\* the job has one format index per byte of its text, each of them an index
\* into its formats
OneFormatPerByte(job) ==
    /\ Len(job.mapping) = Len(job.text)
    /\ \A i \in 1..Len(job.mapping) : job.mapping[i] \in 0..(Len(job.formats) - 1)

\* the format runs of the job tile its text
JobTiles(built, text) ==
    /\ ~built.panic
    /\ IF text = <<>> THEN built.sections = <<>> ELSE Tiles(built.sections, Len(text))

\* C30: on a job with one format index per byte, substring, replace_format
\* with a one-byte char and replace with an ASCII byte and a non-empty string
\* return a job with one format index per byte; replace gives every byte of
\* each inserted copy the format index of the byte it replaced and leaves the
\* other bytes' indexes as they were, and build_layout_sections tiles the new
\* text.  Only substring can panic, on a range off the char boundaries.
C30_OneFormatPerByte ==
    pc = "done" =>
        IF panic # "none" THEN panic = "TextLayoutJob_substring"
        ELSE /\ OneFormatPerByte(ret.job)
             /\ OneFormatPerByte(ret.returned)
             /\ JobTiles(TextLayoutJob_build_layout_sections(ret.returned),
                         ret.returned.text)
             /\ ret.call.fn = "replace" =>
                   /\ ret.returned.formats = ret.job.formats
                   /\ ret.returned.text
                         = Flatten([i \in 1..Len(ret.job.text) |->
                                       IF ret.job.text[i] = ret.call.from
                                       THEN ret.call.to ELSE <<ret.job.text[i]>>])
                   /\ ret.returned.mapping
                         = Flatten([i \in 1..Len(ret.job.text) |->
                                       IF ret.job.text[i] = ret.call.from
                                       THEN [k \in 1..Len(ret.call.to) |-> ret.job.mapping[i]]
                                       ELSE <<ret.job.mapping[i]>>])

\* two newlines with different format indexes, each replaced by two bytes
C30_Witness ==
    /\ pc = "done"
    /\ panic = "none"
    /\ ret.call = [fn |-> "replace", from |-> "nl", to |-> <<"\\", "n">>]
    /\ ret.job.text = <<"nl", "a", "nl">>
    /\ ret.job.mapping = <<0, 1, 1>>
    /\ ret.returned.text = <<"\\", "n", "a", "\\", "n">>
    /\ ret.returned.mapping = <<0, 0, 1, 1, 1>>

====
